---- MODULE Spec2Model ----
(***************************************************************************)
(* Reactive core of minui (src/component.ts, lines 1-1173): the observable *)
(* state proxy, dependency tracking, the batched update scheduler, the     *)
(* `for` directive, unmount cleanup and the component registry.            *)
(*                                                                         *)
(* A run follows one instance of one of these components:                  *)
(*  "counter":  <p>{a ? b : c}</p> <span>{quad}</span>                     *)
(*              <input bind="quad"> <button on:click="a = !a">t</button>   *)
(*     over { a, b, c, get dbl() { return this.b * 2 },                    *)
(*            get quad() { return this.dbl * 2 } }                         *)
(*  "list":     <ul><li for="item in items">{item}</li></ul>               *)
(*     over { items }                                                      *)
(*  "badfor":   the list with a `for` attribute that is not                *)
(*              `item[, index] in expr`                                    *)
(*  "evlist":   <ul><li for="item in items" on:click="STMT">{item}</li>    *)
(*              </ul>, STMT being `items.pop()`, a statement that throws   *)
(*              when run, or one that does not parse                       *)
(*  "forif":    <ul><li for="item in items" if="item != 'B'">{item}</li>   *)
(*              </ul>                                                      *)
(*  "cond":     <div if="on"><b>{n}</b></div> over { on, n }               *)
(*  "vis":      <div show=visible style="display: D">Flex</div>            *)
(*     over { visible }, D being flex, none or absent                      *)
(*  "form":     <input bind="name"> or <input bind="user.name">            *)
(*     over { name, user }, user being null or { name }                    *)
(*  "guard":    <p>{u.name}</p> <span>{n}</span>                           *)
(*     over { u, n, mounted() {}, unmounted() {} }, u null or { name }     *)
(*  "data":     <p>{cfg.opts.mode}</p>                                     *)
(*     over { items, cfg: { opts: { mode } }, sel }, sel null or an object *)
(*  "evdbl":    the template of "evlist" over                              *)
(*              { items, get dbl() { return this.b * 2 } }: b is not a key *)
(*              of the state the factory makes, the host assigns it later  *)
(*  "grow":     <p>{a ? b : c}</p> over { a, b }: c is not a key of the    *)
(*              state the factory makes, the host may assign it later      *)
(* A second machine (tree) follows a chain of nested components, parent -> *)
(* child -> grandchild, linked by prop bindings, and the host's microtask  *)
(* queue.                                                                  *)
(* JavaScript is single threaded: every handler below is one atomic        *)
(* action, and the only deferred work is the flush microtask.              *)
(***************************************************************************)
EXTENDS Integers, Sequences, FiniteSets, TLC

\* ---------------------------------------------------------------- bounds
MaxVal == 1
MaxLen == 2
MaxBindings == 9
MaxMicrotasks == 2
MaxTurnWrites == 2
MaxUnmounts == 2
MaxRegistrations == 2
MaxMounts == 2
Depth == 2
MaxTreeWrites == 2
MaxTicks == 2
MaxFrames == 3
MaxFactoryCalls == 2
MaxStoreCalls == 3
MaxGo == 3

Vals == 0..MaxVal

ItemVals == {"A", "B"}

VARIABLES
  tpl,                \* which component the instance is
  attrs,              \* attribute values of the template
  state,              \* fullState data properties: key -> value
  computeds,          \* computed key -> recorded dependency set
  pendingKeys,        \* Set<string> in insertion order
  updateScheduled,
  microtasks,         \* number of queued flush microtasks
  depMap,             \* key -> array of binding ids
  bindingRegistry,    \* id -> [kind, deps]
  bindingIdCounter,
  cleanups,           \* array of cleanup callbacks
  pendingOldValues,   \* keys of the pendingOldValues map
  pendingArrayOps,    \* root key -> [op, nargs]
  rendered,           \* clones of the `for` directive: [id, text]
  nodeText,           \* text of <p>, of <span>, value of <input>
  listeners,          \* DOM listeners still attached
  buttonClass,        \* className of the <button>
  attached,           \* root is a child of the host target
  phase,              \* "created" | "mounted" | "unmounted"
  dom,                \* DOM state owned by the if / show / bind directives
  hostError,          \* an exception escaped from the library to its caller
  \* history of the run, read only by the properties
  turnWrites,         \* state writes since the last flush that took keys
  lastFlush,          \* summary of the flush the last action ran, if it took keys
  stale,              \* live bindings with a dependency written since their last run
  cleanupRuns,        \* cleanup callback -> number of times it ran
  unmountCalls,
  pendingAtUnmount,   \* keys were pending when unmount() was first called
  ranAfterUnmount,    \* a binding update function ran after unmount()
  flushedAfterUnmount,\* a flush took keys after unmount()
  life,               \* mount() calls, and what the `mounted` hook found
  \* process-wide registry (component(), registerStyle)
  components,         \* registry key -> tag string of the registered factory
  styles,             \* Set<string> of tags with a registered style
  styleElements,      \* tag -> <style> elements of the tag appended to document.head
  styled,             \* tags a component() call with a style returned for
  factoryCalls,       \* registry key -> calls of the registered factory
  regCalls,           \* tag string -> component() calls that returned
  lastThrew,          \* the last component() call threw
  \* a chain of nested components and the host's microtask queue
  tree,
  \* the access path of the last write made through the proxy
  lastWrite,
  \* the ambient tracking set and the call stack of tracked evaluations
  trk,
  \* src/store.ts: the module-level `stores` and `subscribers`
  storeReg,
  \* src/router.ts: currentComponent, the target's children, the session history
  rt

instVars == <<tpl, attrs, dom, hostError, state, computeds, pendingKeys, updateScheduled, microtasks, depMap,
              bindingRegistry, bindingIdCounter, cleanups, pendingOldValues,
              pendingArrayOps, rendered, nodeText, listeners, buttonClass,
              attached, phase, turnWrites, lastFlush, stale, cleanupRuns,
              unmountCalls, pendingAtUnmount, ranAfterUnmount, flushedAfterUnmount,
              life>>
regVars == <<components, styles, styleElements, styled, factoryCalls, regCalls, lastThrew>>
sideVars == <<lastWrite, trk, storeReg, rt>>
auxVars == <<tree, sideVars>>
vars == <<instVars, regVars, auxVars>>

\* ---------------------------------------------------------------- helpers
Range(s) == {s[i] : i \in 1..Len(s)}

EmptyMap == [x \in {} |-> 0]

\* Set.prototype.add on an insertion-ordered set
SetAdd(s, k) == IF k \in Range(s) THEN s ELSE Append(s, k)

\* Array.prototype.indexOf + splice(p, 1): drop the first occurrence
RECURSIVE RemoveFirst(_, _)
RemoveFirst(s, x) ==
  IF s = <<>> THEN <<>>
  ELSE IF Head(s) = x THEN Tail(s)
  ELSE <<Head(s)>> \o RemoveFirst(Tail(s), x)

RECURSIVE Reverse(_)
Reverse(s) == IF s = <<>> THEN <<>> ELSE Append(Reverse(Tail(s)), Head(s))

MinOf(S) == CHOOSE x \in S : \A y \in S : x <= y
MaxOf(S) == CHOOSE x \in S : \A y \in S : x >= y

\* ---------------------------------------------------------------- state
ListTemplates == {"list", "badfor", "evlist", "forif", "evdbl"}

\* Own enumerable keys of fullState, in property order
EnumerableKeys(t) ==
  CASE t = "counter" -> <<"go", "a", "b", "c", "dbl", "quad">>
    [] t = "guard" -> <<"go", "u", "n", "mounted", "unmounted">>
    [] t = "cond" -> <<"go", "on", "n">>
    [] t = "vis" -> <<"go", "visible">>
    [] t = "form" -> <<"go", "name", "user">>
    [] t = "data" -> <<"items", "cfg", "sel">>
    \* the keys the state has when the factory binds the template
    [] t = "grow" -> <<"go", "a", "b">>
    [] t = "evdbl" -> <<"go", "items", "dbl">>
    [] OTHER -> <<"go", "items">>

\* Keys of the getter-backed properties, in property order
ComputedKeys(t) ==
  CASE t = "counter" -> <<"dbl", "quad">>
    [] t = "evdbl" -> <<"dbl">>
    [] OTHER -> <<>>

AllComputedKeys == {"dbl", "quad"}

\* get dbl() { return this.b * 2 }
Dbl(st) == st.b * 2
\* get quad() { return this.dbl * 2 }
Quad(st) == Dbl(st) * 2

\* Keys the getter of a computed reads through the proxy (its fresh tracking set)
GetterReads(key) == IF key = "dbl" THEN {"b"} ELSE {"dbl"}

\* Reading a computed through the proxy re-tracks it and every computed it reads
RECURSIVE ComputedsRead(_)
ComputedsRead(key) ==
  {key} \cup UNION {ComputedsRead(k) : k \in GetterReads(key) \cap AllComputedKeys}

\* Computed dependency sets after an evaluation that read `keysRead`
ReTrack(cs, keysRead) ==
  LET hit == UNION {ComputedsRead(k) : k \in keysRead \cap AllComputedKeys}
  IN [k \in DOMAIN cs |-> IF k \in hit THEN GetterReads(k) ELSE cs[k]]

\* ---------------------------------------------------------------- tracking
\* evaluate(): `{ ...stateProxy, ...context }` reads every enumerable key of
\* the proxy through the get trap; the identifiers of the expression are then
\* resolved on the plain copy and are not tracked.
evaluate(t) == Range(EnumerableKeys(t))

\* bind directive, getValue(): key.split('.').reduce(..., stateProxy)
getValue == {"quad"}

\* Outcome of fn(scope) for an expression of the templates: a value, or the
\* exception it raises (`u.name` with u null is a TypeError)
Value(x) == [is |-> "value", v |-> x]
Throw == [is |-> "throw"]
Undefined == [is |-> "undefined"]

ExprValue(kind, st) ==
  CASE kind = "uname" -> IF st.u = "null" THEN Throw ELSE Value(st.u)
    [] kind = "n" -> Value(st.n)
    [] kind = "on" -> Value(st.on)
    [] kind = "show" -> Value(st.visible)
    [] kind = "mode" -> Value(st.cfg.opts.mode)
    \* getValue(): key.split('.').reduce((acc, k) => acc?.[k], stateProxy)
    [] kind = "name" -> Value(st.name)
    [] kind = "user.name" -> IF st.user.null THEN Undefined ELSE Value(st.user.name)
    \* `item != 'B'` evaluated in a context without the loop variable
    [] kind = "item" -> Throw

\* An evaluate() that lets the exception of fn(scope) escape
evaluate_NoCatch(r) == r

\* evaluate(): try { return fn(scope) } catch { return undefined }
evaluateResult(r) == IF r.is = "throw" THEN Undefined ELSE r

\* !!evaluate(expr, context)
Truthy(r) == r.is = "value" /\ r.v = TRUE

\* String(value ?? ''), numbers kept as numbers
Text(r) == IF r.is = "undefined" THEN "" ELSE r.v

\* Keys added to the ambient tracking set by one run of an update function
UpdateReads(t, kind) ==
  CASE kind = "input" -> getValue
    [] kind = "name" -> {"name"}
    \* the nested proxy records the first path segment
    [] kind = "user.name" -> {"user"}
    [] OTHER -> evaluate(t)

\* ---------------------------------------------------------------- scheduler
\* A notify() that enqueues the key and schedules nothing
notify_NoSchedule(m, key) ==
  [m EXCEPT !.pendingKeys = SetAdd(@, key)]

\* notify(key): enqueue the key and queue one flush microtask if none is scheduled
notify(m, key) ==
  LET m1 == [m EXCEPT !.pendingKeys = SetAdd(@, key)]
  IN IF ~m1.updateScheduled
     THEN [m1 EXCEPT !.updateScheduled = TRUE, !.microtasks = @ + 1]
     ELSE m1

\* ---------------------------------------------------------------- bind
\* The element and event a listener cleanup belongs to
ListenerOf(c) == IF c.id = 1 THEN "input" ELSE IF c.id = 2 THEN "click" ELSE "item"

\* el.addEventListener(...) and the cleanup that removes the listener
AddListener(m, n) ==
  LET l == [kind |-> "listener", id |-> n, deps |-> {}]
  IN [m EXCEPT !.listeners = @ \cup {ListenerOf(l)},
               !.cleanups = Append(@, l),
               !.cleanupRuns = (l :> 0) @@ @]

depMapAdd(dm, deps, id) ==
  [d \in DOMAIN dm \cup deps |->
     IF d \in deps
     THEN Append(IF d \in DOMAIN dm THEN dm[d] ELSE <<>>, id)
     ELSE dm[d]]

\* Enumerable keys the host added to the state after the factory call
AddedKeys(m) == IF m.tpl = "evdbl" /\ m.state.b # -1 THEN {"b"} ELSE {}

\* bind(), after the tracked first run: registry, depMap and cleanup entry
Register(m, kind) ==
  LET id == m.bindingIdCounter + 1
      deps == UpdateReads(m.tpl, kind) \cup AddedKeys(m)
      cleanup == [kind |-> "binding", id |-> id, deps |-> deps]
  IN [m EXCEPT !.bindingIdCounter = id,
               !.bindingRegistry = (id :> [kind |-> kind, deps |-> deps]) @@ @,
               !.depMap = depMapAdd(@, deps, id),
               !.cleanups = Append(@, cleanup),
               !.cleanupRuns = (cleanup :> 0) @@ @]

\* The proxy reads of one run of an update function: every computed read is
\* re-tracked by its getter
track(m, reads) == [m EXCEPT !.computeds = ReTrack(@, reads)]

\* node.data = result, unless the evaluation threw
SetText(m, node, r) ==
  IF r.is = "throw" THEN [m EXCEPT !.thrown = TRUE]
  ELSE [m EXCEPT !.nodeText[node] = Text(r)]

\* A show directive that restores the empty display value
showApply_Blank(m, shouldShow) ==
  IF shouldShow /\ m.dom.display = "none" THEN [m EXCEPT !.dom.display = ""]
  ELSE IF ~shouldShow /\ m.dom.display # "none"
  THEN [m EXCEPT !.dom.originalDisplay = m.dom.display, !.dom.display = "none"]
  ELSE m

\* The update function of the show directive, after the evaluation
showApply(m, shouldShow) ==
  IF shouldShow /\ m.dom.display = "none"
  THEN [m EXCEPT !.dom.display = m.dom.originalDisplay]
  ELSE IF ~shouldShow /\ m.dom.display # "none"
  THEN [m EXCEPT !.dom.originalDisplay = m.dom.display, !.dom.display = "none"]
  ELSE m

\* The DOM write of an update function that creates no binding
Render(m, kind) ==
  CASE kind = "uname" -> SetText(m, "p", evaluateResult(ExprValue(kind, m.state)))
    [] kind = "n" -> SetText(m, "span", evaluateResult(ExprValue(kind, m.state)))
    [] kind = "mode" -> SetText(m, "p", evaluateResult(ExprValue(kind, m.state)))
    [] kind \in {"name", "user.name"} ->
         [m EXCEPT !.nodeText.input = Text(ExprValue(kind, m.state))]
    [] kind = "show" -> showApply(m, Truthy(evaluateResult(ExprValue(kind, m.state))))
    [] kind = "tern" ->
         [m EXCEPT !.nodeText.p = IF m.state.a THEN m.state.b ELSE m.state.c]
    [] kind = "quad" -> [m EXCEPT !.nodeText.span = Quad(m.state)]
    \* {a ? b : c}; c is -1 while the state has no such key
    [] kind = "grow" ->
         [m EXCEPT !.nodeText.p = IF m.state.a THEN m.state.b ELSE m.state.c]
    [] kind = "input" -> [m EXCEPT !.nodeText.input = Quad(m.state)]
    [] OTHER -> m   \* "item", "itemText": rewrite the captured item text

\* Update functions that create no binding
LeafUpdate(m, kind) == Render(track(m, UpdateReads(m.tpl, kind)), kind)

\* bind(): try { updateFn(); } catch (e) {}
Caught(m) == [m EXCEPT !.thrown = FALSE]

BindLeaf(m, kind) == Register(Caught(LeafUpdate(m, kind)), kind)

\* One clone of the `for` template for array[i]: updateItem binding, then the
\* walk of its child text node, then insertion after the last rendered clone
InsertClone(m, id, i) ==
  LET arr == m.state.items
      txt == IF i >= 1 /\ i <= Len(arr) THEN arr[i] ELSE ""
  IN IF m.thrown THEN m
     ELSE [m EXCEPT !.rendered = Append(@, [id |-> id, text |-> txt])]

\* attachEventAttributes(clone, itemContext): the statement is compiled when
\* the handler is set up, outside any try
attachEventAttributes(m) ==
  CASE m.attrs.stmt = "none" -> m
    [] m.attrs.stmt = "syntax" -> [m EXCEPT !.thrown = TRUE]
    [] OTHER -> AddListener(m, 10 + Len(m.cleanups))

\* Walk of the clone's child nodes: the text node {item}
WalkChildren(m) == IF m.thrown THEN m ELSE BindLeaf(m, "itemText")

\* The incremental path attaches the handlers before it walks the children,
\* the full re-render after
WalkClone(m, i, inc) ==
  InsertClone(IF inc THEN WalkChildren(attachEventAttributes(m))
              ELSE attachEventAttributes(WalkChildren(m)),
              m.bindingIdCounter, i)

AddClone(m, i, inc) == WalkClone(BindLeaf(m, "item"), i, inc)

RECURSIVE AddClones(_, _, _, _)
AddClones(m, from, to, inc) ==
  IF from > to \/ m.thrown THEN m
  ELSE AddClones(AddClone(m, from, inc), from + 1, to, inc)

fullRender(m) ==
  AddClones([m EXCEPT !.rendered = <<>>], 1, Len(m.state.items), FALSE)

\* A `for` binding that always takes the full re-render
ForRender_Full(m) == fullRender(m)

\* The `for` binding's update function
ForRender(m) ==
  LET n == Len(m.state.items)
  IN IF "items" \notin DOMAIN m.pendingArrayOps THEN fullRender(m)
     ELSE LET opInfo == m.pendingArrayOps["items"]
          IN CASE opInfo.op = "push" -> AddClones(m, n - opInfo.nargs + 1, n, TRUE)
               [] opInfo.op = "pop" ->
                    IF m.rendered = <<>> THEN m
                    ELSE [m EXCEPT !.rendered = SubSeq(@, 1, Len(@) - 1)]
               [] OTHER -> fullRender(m)

ForUpdate(m) == ForRender(track(m, evaluate(m.tpl)))

RECURSIVE bind(_, _)

Word(tok) == tok \notin {",", "in", ""}

\* forExpr.match(/^(\w+)(?:\s*,\s*(\w+))?\s+in\s+(.+)$/) on the attribute's tokens
forMatch(forExpr) ==
  \/ /\ Len(forExpr) >= 3
     /\ Word(forExpr[1])
     /\ forExpr[2] = "in"
  \/ /\ Len(forExpr) >= 5
     /\ Word(forExpr[1])
     /\ forExpr[2] = ","
     /\ Word(forExpr[3])
     /\ forExpr[4] = "in"

\* walk of the <li for=...>{item}</li> element: the list directive when the
\* attribute matches, else the attribute binding and the walk of the text child
walkFor(m) ==
  IF forMatch(m.attrs.forExpr) THEN bind(m, "for")
  ELSE BindLeaf(BindLeaf(m, "attr"), "text")

\* walk(rendered) of a fresh clone of the `if` template (the clone has no `if`
\* attribute): the list directive, or the text child {n}
walkIfClone(m) ==
  IF m.attrs.forExpr # <<>> THEN walkFor(m) ELSE BindLeaf(m, "n")

\* An insertion that puts back the node removed last
ifInsert_Reuse(m) ==
  walkIfClone([m EXCEPT !.dom.ifNode = IF m.dom.removed = {} THEN m.dom.nextNode
                                       ELSE m.dom.nextNode - 1,
                        !.dom.inDom = @ \cup {IF m.dom.removed = {} THEN m.dom.nextNode
                                              ELSE m.dom.nextNode - 1},
                        !.dom.nextNode = IF m.dom.removed = {} THEN @ + 1 ELSE @])

\* rendered = template.cloneNode(true); insertBefore(...); walk(rendered)
ifInsert(m) ==
  walkIfClone([m EXCEPT !.dom.ifNode = m.dom.nextNode,
                        !.dom.inDom = @ \cup {m.dom.nextNode},
                        !.dom.nextNode = @ + 1])

\* rendered.remove(); rendered = null
ifRemove(m) ==
  [m EXCEPT !.dom.removed = @ \cup {m.dom.ifNode},
            !.dom.inDom = @ \ {m.dom.ifNode},
            !.dom.ifNode = 0]

ifApply(m, shouldShow) ==
  IF shouldShow /\ m.dom.ifNode = 0 THEN ifInsert(m)
  ELSE IF ~shouldShow /\ m.dom.ifNode # 0 THEN ifRemove(m)
  ELSE m

\* The update function of the `if` directive
ifUpdate(m) ==
  ifApply(track(m, evaluate(m.tpl)),
          Truthy(evaluateResult(ExprValue(m.attrs.ifExpr, m.state))))

RunUpdate(m, kind) ==
  CASE kind = "for" -> ForUpdate(m)
    [] kind = "if" -> ifUpdate(m)
    [] OTHER -> LeafUpdate(m, kind)

bind(m, kind) == Register(Caught(RunUpdate(m, kind)), kind)

\* walk of an element with directives: `if` is tested before `for`
walkEl(m) == IF m.attrs.ifExpr # "none" THEN bind(m, "if") ELSE walkFor(m)

\* ---------------------------------------------------------------- flush
\* binding.update() called by the flush loop (no tracking scope is active)
RunBinding(m, id) ==
  [RunUpdate(m, m.bindingRegistry[id].kind) EXCEPT !.updatedBindings = @ \cup {id},
                !.flushRuns = (id :> (IF id \in DOMAIN @ THEN @[id] + 1 ELSE 1)) @@ @,
                !.stale = @ \ {id},
                !.ranAfterUnmount = @ \/ m.phase = "unmounted"]

\* for (const id of listIds) { ... }
RECURSIVE ProcessIds(_, _)
ProcessIds(m, listIds) ==
  IF listIds = <<>> \/ m.thrown THEN m
  ELSE LET id == Head(listIds)
           m1 == IF id \notin DOMAIN m.bindingRegistry THEN m
                 ELSE IF id \in m.updatedBindings THEN m
                 ELSE RunBinding(m, id)
       IN ProcessIds(m1, Tail(listIds))

\* A cascade that also re-enqueues a computed key while it processes that
\* key, until the flush has made four passes
RECURSIVE Cascade_Self(_, _, _)
Cascade_Self(m, k, cks) ==
  IF cks = <<>> THEN m
  ELSE Cascade_Self(IF k \in m.computeds[Head(cks)] \/ (k = Head(cks) /\ m.passes < 4)
                    THEN [m EXCEPT !.pendingKeys = SetAdd(@, Head(cks))]
                    ELSE m, k, Tail(cks))

\* A flush that never re-enqueues a computed key
CascadeNone(m, k, cks) == m

\* computeds.forEach: re-add the key of every computed that depends on k
RECURSIVE Cascade(_, _, _)
Cascade(m, k, cks) ==
  IF cks = <<>> THEN m
  ELSE LET ck == Head(cks)
           m1 == IF k \in m.computeds[ck]
                 THEN [m EXCEPT !.pendingKeys = SetAdd(@, ck)]
                 ELSE m
       IN Cascade(m1, k, Tail(cks))

\* for (const k of keys) { ... }
RECURSIVE ProcessKeys(_, _)
ProcessKeys(m, keys) ==
  IF keys = <<>> \/ m.thrown THEN m
  ELSE LET k == Head(keys)
           m1 == ProcessIds(m, IF k \in DOMAIN m.depMap THEN m.depMap[k] ELSE <<>>)
           m2 == IF m1.thrown THEN m1 ELSE Cascade(m1, k, ComputedKeys(m.tpl))
       IN ProcessKeys(m2, Tail(keys))

RECURSIVE flushUpdates(_)

\* if (pendingKeys.size > 0) flushUpdates()
FlushAgain(m) == IF m.pendingKeys # <<>> THEN flushUpdates(m) ELSE m

\* The end of flushUpdates, not reached when an update function threw
FlushEnd(m) ==
  IF m.thrown THEN m
  ELSE [m EXCEPT !.pendingOldValues = {}, !.pendingArrayOps = EmptyMap]

\* The rest of flushUpdates after the loop over the keys
FlushTail(m) == IF m.thrown THEN m ELSE FlushEnd(FlushAgain(m))

flushUpdates(m) ==
  IF m.pendingKeys = <<>> THEN m
  ELSE FlushTail(ProcessKeys([m EXCEPT !.pendingKeys = <<>>,
                                       !.updateScheduled = FALSE,
                                       !.updatedBindings = {},
                                       !.passes = @ + 1],
                             m.pendingKeys))

\* ---------------------------------------------------------------- machine
\* The closure variables of one factory call, as one record
Machine ==
  [tpl |-> tpl, attrs |-> attrs, dom |-> dom, hostError |-> hostError, thrown |-> FALSE,
   state |-> state, computeds |-> computeds, pendingKeys |-> pendingKeys,
   updateScheduled |-> updateScheduled, microtasks |-> microtasks,
   depMap |-> depMap, bindingRegistry |-> bindingRegistry,
   bindingIdCounter |-> bindingIdCounter, cleanups |-> cleanups,
   pendingOldValues |-> pendingOldValues, pendingArrayOps |-> pendingArrayOps,
   rendered |-> rendered, nodeText |-> nodeText, listeners |-> listeners,
   buttonClass |-> buttonClass, attached |-> attached, phase |-> phase,
   turnWrites |-> turnWrites, lastFlush |-> lastFlush, stale |-> stale,
   cleanupRuns |-> cleanupRuns, unmountCalls |-> unmountCalls,
   pendingAtUnmount |-> pendingAtUnmount, ranAfterUnmount |-> ranAfterUnmount,
   flushedAfterUnmount |-> flushedAfterUnmount, life |-> life,
   updatedBindings |-> {}, flushRuns |-> EmptyMap, passes |-> 0]

Commit(m) ==
  /\ tpl' = m.tpl
  /\ attrs' = m.attrs
  /\ dom' = m.dom
  /\ hostError' = m.hostError
  /\ state' = m.state
  /\ computeds' = m.computeds
  /\ pendingKeys' = m.pendingKeys
  /\ updateScheduled' = m.updateScheduled
  /\ microtasks' = m.microtasks
  /\ depMap' = m.depMap
  /\ bindingRegistry' = m.bindingRegistry
  /\ bindingIdCounter' = m.bindingIdCounter
  /\ cleanups' = m.cleanups
  /\ pendingOldValues' = m.pendingOldValues
  /\ pendingArrayOps' = m.pendingArrayOps
  /\ rendered' = m.rendered
  /\ nodeText' = m.nodeText
  /\ listeners' = m.listeners
  /\ buttonClass' = m.buttonClass
  /\ attached' = m.attached
  /\ phase' = m.phase
  /\ turnWrites' = m.turnWrites
  /\ lastFlush' = m.lastFlush
  /\ stale' = m.stale
  /\ cleanupRuns' = m.cleanupRuns
  /\ unmountCalls' = m.unmountCalls
  /\ pendingAtUnmount' = m.pendingAtUnmount
  /\ ranAfterUnmount' = m.ranAfterUnmount
  /\ flushedAfterUnmount' = m.flushedAfterUnmount
  /\ life' = m.life

NoFlush == [keys |-> {}, writes |-> 0, affected |-> 0, minRuns |-> 0, maxRuns |-> 0,
            passes |-> 0]

\* A flushUpdates() call made from outside a flush, with the run's history:
\* which keys it took, and how often the bindings registered under them ran
Flushed(m, m1) ==
  LET keys == Range(m.pendingKeys)
      affected == {id \in DOMAIN m.bindingRegistry :
                     m.bindingRegistry[id].deps \cap keys # {}}
      runs == {IF id \in DOMAIN m1.flushRuns THEN m1.flushRuns[id] ELSE 0 :
                 id \in affected}
  IN [m1 EXCEPT
        !.lastFlush = [keys |-> keys, writes |-> m.turnWrites,
                       affected |-> Cardinality(affected),
                       minRuns |-> IF runs = {} THEN 0 ELSE MinOf(runs),
                       maxRuns |-> IF runs = {} THEN 0 ELSE MaxOf(runs),
                       passes |-> m1.passes],
        !.turnWrites = 0,
        !.flushedAfterUnmount = @ \/ m.phase = "unmounted"]

Flush(m) ==
  IF m.pendingKeys = <<>> THEN [flushUpdates(m) EXCEPT !.lastFlush = NoFlush]
  ELSE Flushed(m, flushUpdates([m EXCEPT !.flushRuns = EmptyMap, !.passes = 0]))

\* An exception that leaves the library reaches the host: the caller of
\* mount(), or the microtask queue
Escaped(m) == [m EXCEPT !.hostError = @ \/ m.thrown, !.thrown = FALSE]

\* if ('mounted' in stateProxy && typeof ... === 'function') stateProxy.mounted(),
\* not reached when flushUpdates() threw; the history records what the hook
\* found
callMounted(m) ==
  IF m.thrown \/ "mounted" \notin evaluate(m.tpl) THEN m
  ELSE [m EXCEPT !.life.mountedCalls = @ + 1,
                 !.life.sawDetached = @ \/ ~m.attached,
                 !.life.sawPending = @ \/ m.pendingKeys # <<>>,
                 !.life.afterFlush = @ \/ m.lastFlush.keys # {}]

\* target.appendChild(root)
Attach(m) ==
  [m EXCEPT !.attached = TRUE, !.phase = "mounted", !.life.mountCalls = @ + 1]

\* A mount() that calls the hook before it flushes
mount_HookFirst(m) == Flush(callMounted(Attach(m)))

\* handle.mount(target): attach, flushUpdates(), mounted hook
mount(m) == callMounted(Flush(Attach(m)))

\* ---------------------------------------------------------------- proxy
\* History of a write to root key `key`: one more write in this turn, and the
\* live bindings recorded under the key have not run since
Written(m, key) ==
  [m EXCEPT !.turnWrites = @ + 1,
            !.lastFlush = NoFlush,
            !.stale = @ \cup {id \in DOMAIN m.bindingRegistry :
                                key \in m.bindingRegistry[id].deps}]

\* createProxy set trap on the root object
ProxySet(m, key, value) ==
  LET m1 == [m EXCEPT !.pendingOldValues = @ \cup {key},
                      !.state = [@ EXCEPT ![key] = value]]
  IN Written(notify(m1, key), key)

\* createProxy set trap on the proxy of state.user: state.user.name = value
NestedSet(m, value) ==
  Written(notify([m EXCEPT !.pendingOldValues = @ \cup {"user"},
                           !.state.user.name = value], "user"), "user")

\* A setValue that assigns the last path segment on the root object
setValue_Root(m, path, val) == ProxySet(m, "name", val)

\* bind directive, setValue(val): if (parent) parent[last] = val
setValue(m, path, val) ==
  CASE path = "name" -> ProxySet(m, "name", val)
    [] path = "user.name" -> IF m.state.user.null THEN m ELSE NestedSet(m, val)

\* Array mutators of a plain array (value.apply(target, args))
ApplyMethod(arr, op, v) ==
  CASE op = "push" -> Append(arr, v)
    [] op = "pop" -> IF arr = <<>> THEN arr ELSE SubSeq(arr, 1, Len(arr) - 1)
    [] op = "shift" -> IF arr = <<>> THEN arr ELSE Tail(arr)
    [] op = "unshift" -> <<v>> \o arr
    [] op = "reverse" -> Reverse(arr)
    \* sort(): "A" before "B"
    [] op = "sort" -> SelectSeq(arr, LAMBDA x : x = "A") \o SelectSeq(arr, LAMBDA x : x # "A")
    \* splice(0, 1, v)
    [] op = "splice" -> <<v>> \o (IF arr = <<>> THEN arr ELSE Tail(arr))

NArgs(op) == IF op \in {"push", "unshift"} THEN 1 ELSE IF op = "splice" THEN 3 ELSE 0

\* createProxy get trap, array method wrapper, on state.items
ArrayMethod(m, op, v) ==
  LET m1 == [m EXCEPT !.state.items = ApplyMethod(@, op, v),
                      !.pendingArrayOps =
                         ("items" :> [op |-> op, nargs |-> NArgs(op)]) @@ @]
  IN Written(notify(m1, "items"), "items")

\* ---------------------------------------------------------------- data
\* Values of state.sel in the "data" component: null, an object literal the
\* set trap wrapped under the path ["sel"], or the proxy read from
\* state.cfg.opts and stored as it is (isAlreadyProxy). `root` is path[0] of
\* the proxy's handler, `linked` tells that the object is still state.cfg.opts.
NoSel == [null |-> TRUE, mode |-> 0, linked |-> FALSE, root |-> "sel"]
FreshSel(v) == [null |-> FALSE, mode |-> v, linked |-> FALSE, root |-> "sel"]
AliasOf(st) == [null |-> FALSE, mode |-> st.cfg.opts.mode, linked |-> TRUE, root |-> "cfg"]

\* Array index of a property key
IndexOf(key) == CASE key = "0" -> 1 [] key = "1" -> 2 [] key = "2" -> 3

\* set trap: rootKey = path.length > 0 ? path[0] : key, `path` being the path
\* of the proxy the assignment goes through (createProxy returns a value that
\* is a proxy already with the path it was created with)
rootKey(st, access) ==
  IF Len(access) > 1 /\ access[1] = "sel" THEN st.sel.root ELSE access[1]

\* set trap: target[key] = value, on the object at the access path
Assign(st, access, v) ==
  CASE access = <<"items">> -> [st EXCEPT !.items = v]
    [] access = <<"cfg">> -> [st EXCEPT !.cfg = v, !.sel.linked = FALSE]
    [] access = <<"cfg", "opts">> -> [st EXCEPT !.cfg.opts = v, !.sel.linked = FALSE]
    [] access = <<"cfg", "opts", "mode">> ->
         [st EXCEPT !.cfg.opts.mode = v, !.sel.mode = IF st.sel.linked THEN v ELSE @]
    [] access = <<"sel">> -> [st EXCEPT !.sel = v]
    [] access = <<"sel", "mode">> ->
         [st EXCEPT !.sel.mode = v, !.cfg.opts.mode = IF st.sel.linked THEN v ELSE @]
    [] OTHER ->   \* state.items[i] = v
         [st EXCEPT !.items = IF IndexOf(access[2]) > Len(@) THEN Append(@, v)
                               ELSE [@ EXCEPT ![IndexOf(access[2])] = v]]

\* createProxy set trap of the proxy at the access path
proxySet(m, access, v, rk) ==
  Written(notify([m EXCEPT !.pendingOldValues = @ \cup {rk},
                           !.state = Assign(@, access, v)], rk), rk)

\* ---------------------------------------------------------------- unmount
\* A removal that keeps the emptied list under its key
depMapRemove_KeepEmpty(dm, deps, id) ==
  [d \in DOMAIN dm |-> IF d \in deps THEN RemoveFirst(dm[d], id) ELSE dm[d]]

\* The cleanup's loop over deps: indexOf, splice, and depMap.delete(d) for a
\* list that became empty
depMapRemove(dm, deps, id) ==
  LET after(d) == IF d \in deps THEN RemoveFirst(dm[d], id) ELSE dm[d]
  IN [d \in {x \in DOMAIN dm : x \notin deps \/ after(x) # <<>>} |-> after(d)]

\* A binding cleanup that leaves the binding in depMap and bindingRegistry
RunCleanupLeak(m, c) ==
  [m EXCEPT !.cleanupRuns[c] = @ + 1,
            !.listeners = IF c.kind = "listener" THEN @ \ {ListenerOf(c)} ELSE @]

\* One cleanup callback: the closure returned by bind(), or a listener removal
RunCleanup(m, c) ==
  LET m1 == [m EXCEPT !.cleanupRuns[c] = @ + 1]
  IN IF c.kind = "binding"
     THEN [m1 EXCEPT
             !.depMap = depMapRemove(@, c.deps, c.id),
             !.bindingRegistry = [i \in DOMAIN @ \ {c.id} |-> @[i]],
             !.stale = @ \ {c.id}]
     ELSE [m1 EXCEPT !.listeners = @ \ {ListenerOf(c)}]

RECURSIVE RunCleanups(_, _)
RunCleanups(m, cs) ==
  IF cs = <<>> THEN m ELSE RunCleanups(RunCleanup(m, Head(cs)), Tail(cs))

\* History of an unmount() call
Unmounted(m, before) ==
  [m EXCEPT !.phase = "unmounted", !.unmountCalls = @ + 1, !.lastFlush = NoFlush,
            !.pendingAtUnmount = @ \/ (before.phase # "unmounted"
                                        /\ before.pendingKeys # <<>>)]

\* if ('unmounted' in stateProxy && typeof ... === 'function')
\* stateProxy.unmounted(); the history records whether the hook found the
\* root, attached when unmount() was called, already removed
callUnmounted(m, before) ==
  IF "unmounted" \notin evaluate(m.tpl) THEN m
  ELSE [m EXCEPT !.life.unmountedCalls = @ + 1,
                 !.life.unmountedSawDetached = @ \/ (before.attached /\ ~m.attached)]

\* An unmount() that leaves the cleanups array as it is
unmount_KeepCleanups(m) ==
  Unmounted(callUnmounted(RunCleanups([m EXCEPT !.attached = FALSE], m.cleanups), m), m)

\* handle.unmount(): root.remove(), the cleanups, then the unmounted hook
unmount(m) ==
  Unmounted(callUnmounted([RunCleanups([m EXCEPT !.attached = FALSE], m.cleanups)
                             EXCEPT !.cleanups = <<>>], m), m)

\* ---------------------------------------------------------------- factory
NoDom == [ifNode |-> 0, inDom |-> {}, nextNode |-> 1, removed |-> {},
          display |-> "", originalDisplay |-> ""]

\* walk(root) over the template, in document order
\* walk of <input bind=KEY>: the initial value, the state -> DOM binding and
\* the input/change listeners
walkBind(m) == AddListener(BindLeaf(m, m.attrs.bindKey), 1)

\* walk of <div show=visible style="display: D">: the show binding, then
\* the binding of the remaining attributes (the style attribute, if any)
walkShow(m) ==
  IF m.attrs.display = "" THEN BindLeaf(m, "show")
  ELSE BindLeaf(BindLeaf(m, "show"), "attr")

walk(m) ==
  CASE m.tpl = "guard" -> BindLeaf(BindLeaf(m, "uname"), "n")
    [] m.tpl = "vis" -> walkShow(m)
    [] m.tpl = "form" -> walkBind(m)
    [] m.tpl = "data" -> BindLeaf(m, "mode")
    [] m.tpl = "grow" -> BindLeaf(m, "grow")
    [] m.tpl = "counter" ->
         AddListener(
           AddListener(BindLeaf(BindLeaf(BindLeaf(m, "tern"), "quad"), "input"), 1), 2)
    [] OTHER -> walkEl(m)

NoLife == [mountCalls |-> 0, mountedCalls |-> 0, sawDetached |-> FALSE,
           sawPending |-> FALSE, afterFlush |-> FALSE,
           unmountedCalls |-> 0, unmountedSawDetached |-> FALSE]

\* The factory call: state(input), computed setup, walk(root)
factory(t, input, at) ==
  walk([tpl |-> t, attrs |-> at, dom |-> [NoDom EXCEPT !.display = at.display], hostError |-> FALSE, thrown |-> FALSE,
        state |-> input,
        computeds |-> ReTrack([k \in Range(ComputedKeys(t)) |-> {}],
                              Range(ComputedKeys(t))),
        pendingKeys |-> <<>>, updateScheduled |-> FALSE, microtasks |-> 0,
        depMap |-> EmptyMap, bindingRegistry |-> EmptyMap, bindingIdCounter |-> 0,
        cleanups |-> <<>>, pendingOldValues |-> {}, pendingArrayOps |-> EmptyMap,
        rendered |-> <<>>, nodeText |-> [p |-> 0, span |-> 0, input |-> 0],
        listeners |-> {}, buttonClass |-> "", attached |-> FALSE,
        phase |-> "created", turnWrites |-> 0, lastFlush |-> NoFlush,
        stale |-> {}, cleanupRuns |-> EmptyMap, unmountCalls |-> 0,
        pendingAtUnmount |-> FALSE, ranAfterUnmount |-> FALSE,
        flushedAfterUnmount |-> FALSE, life |-> NoLife,
        updatedBindings |-> {}, flushRuns |-> EmptyMap, passes |-> 0])

Arrays == UNION {[1..n -> ItemVals] : n \in 0..MaxLen}

\* The item values written to the list of template t
ItemValsOf(t) == IF t \in {"evlist", "evdbl"} THEN {"A"} ELSE ItemVals

Templates == {"counter", "list", "badfor", "evlist", "forif", "guard", "cond", "vis", "form"}

Names == {"Ann"}

\* Strings the host assigns to a bound path, and the string typed into the
\* bound control
HostTexts == {"Alice", "Carol"}
TypedTexts == {"Bob"}

\* Values of state.user: null or { name }
UserVals == {[null |-> TRUE, name |-> ""]} \cup {[null |-> FALSE, name |-> x] : x \in HostTexts}

\* Inputs of the factory call
Inputs(t) ==
  CASE t = "counter" -> {[a |-> a0, b |-> 0, c |-> 1] : a0 \in BOOLEAN}
    [] t = "guard" -> {[u |-> u0, n |-> 0] : u0 \in {"null"} \cup Names}
    [] t = "cond" -> {[on |-> on0, n |-> 0] : on0 \in BOOLEAN}
    [] t = "vis" -> {[visible |-> v0] : v0 \in BOOLEAN}
    [] t = "form" -> {[name |-> "Alice", user |-> u0] : u0 \in UserVals}
    \* b = -1: the state has no key b
    [] t = "evdbl" -> {[b |-> -1, items |-> <<>>]}
    [] t \in ListTemplates ->
         {[items |-> arr] : arr \in {x \in Arrays : Len(x) <= 1 /\ \A i \in 1..Len(x) : x[i] \in ItemValsOf(t)}}

ForExprs ==
  {<<"item", "in", "items">>, <<"item", ",", "i", "in", "items">>,
   <<"item", "of", "items">>, <<"in", "items">>, <<"item", ",", "in", "items">>}

Stmts == {"ok", "runtime", "syntax"}

\* Values of style.display in the template
Displays == {"", "flex", "none"}

NoAttrs ==
  [forExpr |-> <<>>, stmt |-> "none", ifExpr |-> "none", display |-> "", bindKey |-> "none"]

\* Attribute values of the template
Attrs(t) ==
  CASE t = "list" -> {[NoAttrs EXCEPT !.forExpr = <<"item", "in", "items">>]}
    [] t \in {"evlist", "evdbl"} ->
         {[NoAttrs EXCEPT !.forExpr = <<"item", "in", "items">>, !.stmt = x] : x \in Stmts}
    [] t = "forif" ->
         {[NoAttrs EXCEPT !.forExpr = <<"item", "in", "items">>, !.ifExpr = "item"]}
    [] t = "cond" -> {[NoAttrs EXCEPT !.ifExpr = "on"]}
    [] t = "vis" -> {[NoAttrs EXCEPT !.display = d] : d \in Displays}
    [] t = "form" -> {[NoAttrs EXCEPT !.bindKey = k] : k \in {"name", "user.name"}}
    [] t = "badfor" -> {[NoAttrs EXCEPT !.forExpr = f] : f \in {x \in ForExprs : ~forMatch(x)}}
    [] OTHER -> {NoAttrs}

\* ---------------------------------------------------------------- registry
Tags == {"counter", "list", "card", "Card", "panel", "Panel"}

\* String.prototype.toLowerCase on the tags above
toLowerCase(tag) ==
  CASE tag = "Card" -> "card"
    [] tag = "Panel" -> "panel"
    [] OTHER -> tag

\* A registerStyle that does not look the tag up in `styles`
registerStyle_NoGuard(tag, style) ==
  IF style
  THEN /\ styles' = styles \cup {tag}
       /\ styleElements' = [styleElements EXCEPT ![tag] = @ + 1]
  ELSE UNCHANGED <<styles, styleElements>>

registerStyle(tag, style) ==
  IF style /\ tag \notin styles
  THEN /\ styles' = styles \cup {tag}
       /\ styleElements' = [styleElements EXCEPT ![tag] = @ + 1]
  ELSE UNCHANGED <<styles, styleElements>>

\* ---------------------------------------------------------------- nested components
\* A chain of components, each <p>{v}</p><child v={v}></child>, the last one
\* <p>{v}</p>: instance 0 is the parent the host writes to, instance i + 1 the
\* child of instance i.  The value of v is an object (an array) held by
\* reference; heap gives the content of each object.
Instances == 0..Depth
Objs == 1..(Depth + 2)

FlushTask(i) == [kind |-> "flush", inst |-> i]
\* the continuation of `await Promise.resolve()` inside nextTick()
TickTask == [kind |-> "tick", inst |-> 0]
\* the continuation of the host's `await nextTick()`
ResumeTask == [kind |-> "resume", inst |-> 0]

\* notify(key) of instance i: queueMicrotask(() => { flushUpdates() })
notifyT(t, i) ==
  IF t.scheduled[i] THEN [t EXCEPT !.pending[i] = TRUE]
  ELSE [t EXCEPT !.pending[i] = TRUE, !.scheduled[i] = TRUE,
                 !.queue = Append(@, FlushTask(i))]

\* The update function of {v}: the text shows the content of the object
textBinding(t, i) == [t EXCEPT !.shown[i] = t.heap[t.val[i]]]

\* A prop binding that does not write the child's state
propBinding_Skip(t, i) == t

\* The aggregated prop binding: childInstance.state[key] = evaluate(expr),
\* a write through the child's proxy (the value is already a proxy and is
\* stored as it is)
propBinding(t, i) ==
  IF i = Depth THEN t ELSE notifyT([t EXCEPT !.val[i + 1] = t.val[i]], i + 1)

\* flushUpdates() of instance i: both bindings are recorded under v, until the
\* cleanups of the instance have removed them
flushT(t, i) ==
  IF ~t.pending[i] THEN t
  ELSE IF t.unmounted[i]
  THEN [t EXCEPT !.pending[i] = FALSE, !.scheduled[i] = FALSE]
  ELSE propBinding(textBinding([t EXCEPT !.pending[i] = FALSE,
                                         !.scheduled[i] = FALSE], i), i)

\* handle.unmount() of instance i: root.remove(), then the cleanups of this
\* instance (its bindings and listeners), then its `unmounted` hook
unmountT(t, i) == [t EXCEPT !.unmounted[i] = TRUE]

\* The factory call of instance i with input v = val[i]: walk binds the text,
\* creates the child with the evaluated prop as input, binds the prop (its
\* first run writes the child's state) and mounts the child into the parent's
\* root, which flushes the child
RECURSIVE factoryT(_, _)
factoryT(t, i) ==
  IF i = Depth THEN textBinding(t, i)
  ELSE flushT(propBinding(factoryT([textBinding(t, i) EXCEPT !.val[i + 1] = t.val[i]],
                                   i + 1), i), i + 1)

NoTree ==
  [val |-> [i \in Instances |-> 1], heap |-> [o \in Objs |-> 0],
   shown |-> [i \in Instances |-> 0], pending |-> [i \in Instances |-> FALSE],
   scheduled |-> [i \in Instances |-> FALSE], queue |-> <<>>, pc |-> "run",
   writes |-> 0, ticks |-> 0, wrote |-> FALSE, tickAfterWrite |-> FALSE,
   observing |-> FALSE, unmounted |-> [i \in Instances |-> FALSE]]

\* const { mount, state } = parentFactory(); mount(document.body)
TreeInit == flushT(factoryT(NoTree, 0), 0)

\* The instance variables after the factory call returned machine m
Start(m) ==
  /\ tpl = m.tpl
  /\ attrs = m.attrs
  /\ dom = m.dom
  /\ hostError = m.hostError
  /\ state = m.state
  /\ computeds = m.computeds
  /\ pendingKeys = m.pendingKeys
  /\ updateScheduled = m.updateScheduled
  /\ microtasks = m.microtasks
  /\ depMap = m.depMap
  /\ bindingRegistry = m.bindingRegistry
  /\ bindingIdCounter = m.bindingIdCounter
  /\ cleanups = m.cleanups
  /\ pendingOldValues = m.pendingOldValues
  /\ pendingArrayOps = m.pendingArrayOps
  /\ rendered = m.rendered
  /\ nodeText = m.nodeText
  /\ listeners = m.listeners
  /\ buttonClass = m.buttonClass
  /\ attached = m.attached
  /\ phase = m.phase
  /\ turnWrites = m.turnWrites
  /\ lastFlush = m.lastFlush
  /\ stale = m.stale
  /\ cleanupRuns = m.cleanupRuns
  /\ unmountCalls = m.unmountCalls
  /\ pendingAtUnmount = m.pendingAtUnmount
  /\ ranAfterUnmount = m.ranAfterUnmount
  /\ flushedAfterUnmount = m.flushedAfterUnmount
  /\ life = m.life

\* No write has been made through the proxy
NoWrite == [access |-> <<>>]

\* let tracking: Set<string> | null = null, outside every evaluation
NoEnd == [prev |-> -1]
TrkInit == [tracking |-> 0, sets |-> <<>>, stack |-> <<>>, deps |-> {}, ended |-> NoEnd]

\* export const subscribers = new Map(); export const stores = new Set()
StoreObjs == {"s1", "s2"}
StoreInit == [stores |-> {}, subscribers |-> << >>, calls |-> [s \in StoreObjs |-> 0],
              result |-> "none"]

\* ---------------------------------------------------------------- router
\* const routes = { "/": Home, "/about": About, "/page": Page }
Routes == [p \in {"/", "/about", "/page"} |->
             CASE p = "/" -> "home" [] p = "/about" -> "about" [] p = "/page" -> "page"]

\* URLs as the path, then "?" and the query string if there is one
Urls == {<<"/">>, <<"/about">>, <<"/page", "?", "id=42">>, <<"/notfound">>}

\* parseUrl(url): const [path, queryString] = url.split("?")
parseUrl(url) == [path |-> url[1], params |-> IF Len(url) >= 3 THEN url[3] ELSE ""]

\* currentComponent.mount(target): target.appendChild(root)
mountRoute(r, tag, params) ==
  [r EXCEPT !.currentComponent = r.nextId,
            !.nextId = @ + 1,
            !.target = Append(@, [tag |-> tag, id |-> r.nextId, params |-> params])]

\* A render(url) that leaves the target as it is
render_NoClear(r, url) ==
  IF "/" \in DOMAIN Routes \/ parseUrl(url).path \in DOMAIN Routes
  THEN mountRoute(r, IF parseUrl(url).path \in DOMAIN Routes
                     THEN Routes[parseUrl(url).path] ELSE Routes["/"],
                  parseUrl(url).params)
  ELSE r

\* render(url)
render(r, url) ==
  IF "/" \in DOMAIN Routes \/ parseUrl(url).path \in DOMAIN Routes
  THEN mountRoute([r EXCEPT !.target = IF r.currentComponent # 0 THEN <<>> ELSE @],
                  IF parseUrl(url).path \in DOMAIN Routes
                  THEN Routes[parseUrl(url).path] ELSE Routes["/"],
                  parseUrl(url).params)
  ELSE [r EXCEPT !.target = IF r.currentComponent # 0 THEN <<>> ELSE @]

\* router(target, routes) on a page at "/", `body` being the content the
\* target has before: let currentComponent = null, then the first render
RouterInit(body) ==
  render([currentComponent |-> 0, nextId |-> 1,
          target |-> IF body = "" THEN <<>> ELSE <<[tag |-> body, id |-> 0, params |-> ""]>>,
          history |-> << <<"/">> >>, at |-> 1, gos |-> 0], <<"/">>)

InitSide ==
  /\ lastWrite = NoWrite
  /\ trk = TrkInit
  /\ storeReg = StoreInit
  /\ rt = RouterInit("")

InitRegistry ==
  /\ components = [t \in {"counter", "list"} |-> t]
  /\ styles = {}
  /\ styleElements = [t \in Tags |-> 0]
  /\ styled = {}
  /\ factoryCalls = [k \in {toLowerCase(t) : t \in Tags} |-> 0]
  /\ regCalls = [t \in Tags |-> IF t \in {"counter", "list"} THEN 1 ELSE 0]
  /\ lastThrew = FALSE

Init ==
  /\ \E t \in Templates : \E input \in Inputs(t), at \in Attrs(t) :
        \E m \in {factory(t, input, at)} : Start(m)
  /\ InitRegistry
  /\ tree = TreeInit
  /\ InitSide

\* ---------------------------------------------------------------- actions
\* Worst case of one flush: one pass per pending or cascaded key, each
\* re-rendering MaxLen clones with two bindings per clone
FlushCost ==
  CASE tpl \in {"list", "evlist", "evdbl"} -> 2 * MaxLen
    [] tpl = "cond" -> 1
    [] OTHER -> 0

CanWrite ==
  /\ turnWrites < MaxTurnWrites
  /\ updateScheduled \/ microtasks < MaxMicrotasks
  /\ bindingIdCounter + FlushCost <= MaxBindings

\* state.a = v, state.b = v, state.c = v
SetKey ==
  /\ tpl = "counter"
  /\ CanWrite
  /\ \E k \in {"a", "b", "c"} :
       \E v \in (IF k = "a" THEN BOOLEAN ELSE Vals) :
          Commit(ProxySet(Machine, k, v))
  /\ UNCHANGED <<regVars, auxVars>>

\* Root-level assignments the host makes on the other components
Writes(t) ==
  CASE t = "guard" -> ({"u"} \X ({"null"} \cup Names)) \cup ({"n"} \X Vals)
    [] t = "cond" -> ({"on"} \X BOOLEAN) \cup ({"n"} \X Vals)
    [] t = "vis" -> {"visible"} \X BOOLEAN
    [] t = "form" -> ({"name"} \X HostTexts) \cup ({"user"} \X UserVals)
    [] OTHER -> {}

\* state[k] = v
SetProp ==
  /\ CanWrite
  /\ \E w \in Writes(tpl) : Commit(ProxySet(Machine, w[1], w[2]))
  /\ UNCHANGED <<regVars, auxVars>>

\* state.user.name = v, written by the host
SetNested ==
  /\ tpl = "form"
  /\ ~state.user.null
  /\ CanWrite
  /\ \E v \in HostTexts : Commit(NestedSet(Machine, v))
  /\ UNCHANGED <<regVars, auxVars>>

\* The user types v into the bound control: el.value = v, then the input
\* event runs updateState
InputEvent ==
  /\ tpl = "form"
  /\ "input" \in listeners
  /\ CanWrite
  /\ \E v \in TypedTexts :
       Commit(setValue([Machine EXCEPT !.nodeText.input = v, !.lastFlush = NoFlush],
                       attrs.bindKey, v))
  /\ UNCHANGED <<regVars, auxVars>>

\* state.items = arr
SetItems ==
  /\ tpl \in ListTemplates
  /\ CanWrite
  /\ \E arr \in Arrays :
       /\ \A i \in 1..Len(arr) : arr[i] \in ItemValsOf(tpl)
       /\ Commit(ProxySet(Machine, "items", arr))
  /\ UNCHANGED <<regVars, auxVars>>

\* state.items.push(v), .pop(), .shift(), .unshift(v), .reverse()
CallArrayMethod ==
  /\ tpl \in ListTemplates
  /\ CanWrite
  /\ \E op \in {"push", "pop", "shift", "unshift", "reverse"}, v \in ItemValsOf(tpl) :
       /\ NArgs(op) = 0 => v = "A"
       /\ NArgs(op) = 1 => Len(state.items) < MaxLen
       /\ Commit(ArrayMethod(Machine, op, v))
  /\ UNCHANGED <<regVars, auxVars>>

\* The queued microtask: () => { flushUpdates() }
RunMicrotask ==
  /\ microtasks > 0
  /\ Commit(Escaped(Flush([Machine EXCEPT !.microtasks = @ - 1])))
  /\ UNCHANGED <<regVars, auxVars>>

\* handle.mount(target)
Mount ==
  /\ \/ phase = "created"
     \/ phase = "mounted" /\ tpl = "guard" /\ life.mountCalls < MaxMounts
  /\ Commit(Escaped(mount(Machine)))
  /\ UNCHANGED <<regVars, auxVars>>

\* handle.unmount()
Unmount ==
  /\ unmountCalls < MaxUnmounts
  /\ Commit(unmount(Machine))
  /\ UNCHANGED <<regVars, auxVars>>

\* A click on the <button>: the on:click handler runs `a = !a`, flushes
\* synchronously and sets the class of the event target
Click ==
  /\ "click" \in listeners
  /\ CanWrite
  /\ Commit([Flush(ProxySet(Machine, "a", ~state.a)) EXCEPT !.buttonClass = "selected"])
  /\ UNCHANGED <<regVars, auxVars>>

\* A click on a rendered <li> clone: the handler attached by
\* attachEventAttributes runs the statement inside try/catch
ClickItem ==
  /\ "item" \in listeners
  /\ rendered # <<>>
  /\ CanWrite
  /\ Commit(IF attrs.stmt = "ok" THEN ArrayMethod(Machine, "pop", "A")
            ELSE [Machine EXCEPT !.lastFlush = NoFlush])
  /\ UNCHANGED <<regVars, auxVars>>

\* component(tag, template, state, style)
Component ==
  /\ \E tag \in Tags, style \in BOOLEAN :
       IF tag \in DOMAIN components
       THEN \* throw new Error(`Component '${tag}' already exists!`)
            /\ lastThrew' = TRUE
            /\ UNCHANGED <<components, styles, styleElements, styled, regCalls>>
       ELSE /\ regCalls[tag] < MaxRegistrations
            /\ registerStyle(tag, style)
            /\ styled' = IF style THEN styled \cup {tag} ELSE styled
            /\ components' = (toLowerCase(tag) :> tag) @@ components
            /\ regCalls' = [regCalls EXCEPT ![tag] = @ + 1]
            /\ lastThrew' = FALSE
  /\ UNCHANGED <<factoryCalls, instVars, auxVars>>

\* Number of factory calls made so far
RECURSIVE SumOver(_, _)
SumOver(f, keys) ==
  IF keys = {} THEN 0
  ELSE LET k == CHOOSE x \in keys : TRUE IN f[k] + SumOver(f, keys \ {k})
Sum(f) == SumOver(f, DOMAIN f)

\* components[key](input): one more instance of a registered component
FactoryCall ==
  /\ \E key \in DOMAIN components :
       /\ Sum(factoryCalls) < MaxFactoryCalls
       /\ factoryCalls' = [factoryCalls EXCEPT ![key] = @ + 1]
  /\ UNCHANGED <<components, styles, styleElements, styled, regCalls, lastThrew>>
  /\ UNCHANGED <<instVars, auxVars>>

Next == SetKey \/ SetProp \/ SetItems \/ CallArrayMethod \/ RunMicrotask \/ Mount \/ Unmount \/ Click \/ ClickItem
          \/ SetNested \/ InputEvent

Spec == Init /\ [][Next]_vars


\* ---- the host program over the chain of nested components
\* A host statement ends the observation made right after `await nextTick()`
HostStep(t) == [t EXCEPT !.observing = FALSE]

\* state.v.push(x): the object of the parent is changed in place
TreeMutate ==
  /\ tree.pc = "run"
  /\ tree.writes < MaxTreeWrites
  /\ \E c \in Vals \ {tree.heap[tree.val[0]]} :
       tree' = notifyT([HostStep(tree) EXCEPT !.heap[tree.val[0]] = c,
                                             !.writes = @ + 1, !.wrote = TRUE], 0)
  /\ UNCHANGED <<instVars, regVars, sideVars>>

\* state.v = [...]: the parent's key gets a new object
TreeReplace ==
  /\ tree.pc = "run"
  /\ tree.writes < MaxTreeWrites
  /\ \E c \in Vals, o \in Objs :
       /\ \A i \in Instances : tree.val[i] # o
       /\ \A p \in Objs : (\A i \in Instances : tree.val[i] # p) => o <= p
       /\ tree' = notifyT([HostStep(tree) EXCEPT !.heap[o] = c, !.val[0] = o,
                                                 !.writes = @ + 1, !.wrote = TRUE], 0)
  /\ UNCHANGED <<instVars, regVars, sideVars>>

\* await nextTick(): the async function runs up to its `await Promise.resolve()`
AwaitNextTick ==
  /\ tree.pc = "run"
  /\ tree.ticks < MaxTicks
  /\ tree' = [HostStep(tree) EXCEPT !.queue = Append(@, TickTask), !.pc = "await",
                                    !.ticks = @ + 1, !.tickAfterWrite = tree.wrote,
                                    !.wrote = FALSE]
  /\ UNCHANGED <<instVars, regVars, sideVars>>

\* The host's synchronous code returns: the microtask queue drains
TreeEnd ==
  /\ tree.pc = "run"
  /\ tree' = [HostStep(tree) EXCEPT !.pc = "end"]
  /\ UNCHANGED <<instVars, regVars, sideVars>>

\* The microtask at the head of the queue, t being the tree without it
RunHead(t, task) ==
  CASE task.kind = "flush" -> flushT(t, task.inst)
    \* nextTick() returns: its promise resolves and queues the host's continuation
    [] task.kind = "tick" -> [t EXCEPT !.queue = Append(@, ResumeTask)]
    [] task.kind = "resume" -> [t EXCEPT !.pc = "run", !.observing = t.tickAfterWrite]

\* The microtask checkpoint runs the oldest microtask while the host's stack
\* is empty
RunTask ==
  /\ tree.pc \in {"await", "end"}
  /\ tree.queue # <<>>
  /\ tree' = RunHead([tree EXCEPT !.queue = Tail(@)], Head(tree.queue))
  /\ UNCHANGED <<instVars, regVars, sideVars>>

InitTree ==
  /\ \E m \in {factory("vis", [visible |-> TRUE], NoAttrs)} : Start(m)
  /\ InitRegistry
  /\ tree = TreeInit
  /\ InitSide

\* ---------------------------------------------------------------- quiet handler
\* The counter whose button is <button on:click="b">t</button>: the statement
\* reads b and writes nothing
InitQuiet ==
  /\ \E input \in Inputs("counter") :
       Start(factory("counter", input, [NoAttrs EXCEPT !.stmt = "read"]))
  /\ InitRegistry
  /\ tree = TreeInit
  /\ InitSide

\* A click on that button: the statement, flushUpdates(), then the class of
\* the event target (the button is no registered per-item node)
ClickQuiet ==
  /\ "click" \in listeners
  /\ attrs.stmt = "read"
  /\ Commit([Flush(Machine) EXCEPT !.buttonClass = "selected"])
  /\ UNCHANGED <<regVars, auxVars>>

NextQuiet == ClickQuiet \/ SetKey \/ RunMicrotask \/ Mount \/ Unmount

SpecQuiet == InitQuiet /\ [][NextQuiet]_vars

\* ---------------------------------------------------------------- teardown
\* The host calls unmount() on the handle of the parent
TreeUnmount ==
  /\ tree.pc = "run"
  /\ ~tree.unmounted[0]
  /\ tree' = unmountT(HostStep(tree), 0)
  /\ UNCHANGED <<instVars, regVars, sideVars>>

NextTeardown == TreeUnmount \/ TreeMutate \/ TreeReplace \/ AwaitNextTick \/ TreeEnd \/ RunTask

SpecTeardown == InitTree /\ [][NextTeardown]_vars

\* ---------------------------------------------------------------- data actions
InitData ==
  /\ \E arr \in Arrays, v \in Vals :
       Start(factory("data", [items |-> arr, cfg |-> [opts |-> [mode |-> v]],
                              sel |-> NoSel], NoAttrs))
  /\ InitRegistry
  /\ tree = TreeInit
  /\ InitSide

\* Assignments the host makes through the proxy of the "data" component
DataWrites ==
  ({<<"items">>} \X Arrays)
  \cup ({<<"items", k>> : k \in {"0", "1"}} \X ItemVals)
  \cup ({<<"cfg">>} \X {[opts |-> [mode |-> v]] : v \in Vals})
  \cup ({<<"cfg", "opts">>} \X {[mode |-> v] : v \in Vals})
  \cup ({<<"cfg", "opts", "mode">>, <<"sel", "mode">>} \X Vals)
  \cup ({<<"sel">>} \X ({NoSel, AliasOf(state)} \cup {FreshSel(v) : v \in Vals}))

\* state.items = arr, state.items[i] = v, state.cfg = {...}, state.cfg.opts = {...},
\* state.cfg.opts.mode = v, state.sel = null | {...} | state.cfg.opts,
\* state.sel.mode = v
DataAssign ==
  /\ CanWrite
  /\ \E w \in DataWrites :
       /\ Len(w[1]) > 1 /\ w[1][1] = "sel" => ~state.sel.null
       /\ w[1][1] = "items" /\ Len(w[1]) > 1 => IndexOf(w[1][2]) <= Len(state.items) + 1
       /\ Commit(proxySet(Machine, w[1], w[2], rootKey(state, w[1])))
       /\ lastWrite' = [access |-> w[1]]
  /\ UNCHANGED <<regVars, tree, trk, storeReg, rt>>

\* state.items.push(v), .pop(), .shift(), .unshift(v), .splice(0, 1, v),
\* .sort(), .reverse()
DataMutate ==
  /\ CanWrite
  /\ \E op \in {"push", "pop", "shift", "unshift", "splice", "sort", "reverse"},
        v \in ItemVals :
       /\ NArgs(op) = 0 => v = "A"
       /\ NArgs(op) > 0 => Len(state.items) < MaxLen
       /\ Commit(ArrayMethod(Machine, op, v))
       /\ lastWrite' = [access |-> <<"items">>]
  /\ UNCHANGED <<regVars, tree, trk, storeReg, rt>>

NextData == DataAssign \/ DataMutate \/ RunMicrotask

SpecData == InitData /\ [][NextData]_vars

\* ---------------------------------------------------------------- late keys
InitGrow ==
  /\ \E v \in Vals : Start(factory("grow", [a |-> TRUE, b |-> v, c |-> -1], NoAttrs))
  /\ InitRegistry
  /\ tree = TreeInit
  /\ InitSide

\* state.a = v, state.b = v, state.c = v
GrowWrite ==
  /\ tpl = "grow"
  /\ CanWrite
  /\ \E w \in ({"a"} \X BOOLEAN) \cup ({"b", "c"} \X Vals) :
       Commit(ProxySet(Machine, w[1], w[2]))
  /\ UNCHANGED <<regVars, auxVars>>

NextGrow == GrowWrite \/ RunMicrotask \/ Mount \/ Unmount

SpecGrow == InitGrow /\ [][NextGrow]_vars

\* ---------------------------------------------------------------- list with a computed
InitDbl ==
  /\ \E at \in Attrs("evdbl") : \E input \in Inputs("evdbl") :
       Start(factory("evdbl", input, at))
  /\ InitRegistry
  /\ tree = TreeInit
  /\ InitSide

\* state.b = v
DblWrite ==
  /\ tpl = "evdbl"
  /\ CanWrite
  /\ \E v \in Vals : Commit(ProxySet(Machine, "b", v))
  /\ UNCHANGED <<regVars, auxVars>>

NextDbl == DblWrite \/ SetItems \/ CallArrayMethod \/ RunMicrotask \/ Mount \/ ClickItem

SpecDbl == InitDbl /\ [][NextDbl]_vars

\* ---------------------------------------------------------------- shared props
\* The instance whose createProxy wrapped the objects of the chain: the child
\* input is evaluate(expr) of the parent, a proxy made by the parent's get
\* trap, and the child's createProxy returns a proxy as it is
ProxyOwner == 0

\* <button on:click="v.push(x)"> of child i is clicked: the array method
\* wrapper of the proxy the child holds, then the handler's flushUpdates()
ChildMutate ==
  /\ tree.pc = "run"
  /\ tree.writes < MaxTreeWrites
  /\ \E i \in 1..Depth : \E c \in Vals \ {tree.heap[tree.val[i]]} :
       tree' = flushT(notifyT([HostStep(tree) EXCEPT !.heap[tree.val[i]] = c,
                                                    !.writes = @ + 1, !.wrote = TRUE],
                              ProxyOwner), i)
  /\ UNCHANGED <<instVars, regVars, sideVars>>

NextShare == ChildMutate \/ TreeMutate \/ TreeReplace \/ AwaitNextTick \/ TreeEnd \/ RunTask

SpecShare == InitTree /\ [][NextShare]_vars

\* ---------------------------------------------------------------- stores
\* A registerStore that makes a new subscriber map on every call
registerStore_NoCheck(t, s) ==
  [t EXCEPT !.subscribers = (s :> << >>) @@ @, !.stores = @ \cup {s}, !.result = s]

\* registerStore(store)
registerStore(t, s) ==
  IF s \in t.stores THEN [t EXCEPT !.result = s]
  ELSE [t EXCEPT !.subscribers = (s :> << >>) @@ @, !.stores = @ \cup {s}, !.result = s]

RegisterStore(s) ==
  /\ storeReg.calls[s] < MaxStoreCalls
  /\ storeReg' = [registerStore(storeReg, s) EXCEPT !.calls[s] = @ + 1]
  /\ UNCHANGED <<instVars, regVars, tree, lastWrite, trk, rt>>

\* A component subscribes callback cb to a key of a store:
\* if (!subscribersMap.has(key)) subscribersMap.set(key, new Set());
\* subscribersMap.get(key).add(callback)
Subscribe ==
  /\ \E s \in DOMAIN storeReg.subscribers, key \in {"count", "name"}, cb \in {"cb1", "cb2"} :
       storeReg' = [storeReg EXCEPT !.subscribers[s] =
                      (key :> ((IF key \in DOMAIN @ THEN @[key] ELSE {}) \cup {cb})) @@ @]
  /\ UNCHANGED <<instVars, regVars, tree, lastWrite, trk, rt>>

\* The unsubscriber made by the subscription: subscribersMap.get(key)?.delete(callback)
Unsubscribe ==
  /\ \E s \in DOMAIN storeReg.subscribers :
       \E key \in DOMAIN storeReg.subscribers[s] : \E cb \in storeReg.subscribers[s][key] :
          storeReg' = [storeReg EXCEPT !.subscribers[s][key] = @ \ {cb}]
  /\ UNCHANGED <<instVars, regVars, tree, lastWrite, trk, rt>>

NextStore == (\E s \in StoreObjs : RegisterStore(s)) \/ Subscribe \/ Unsubscribe

SpecStore == InitTree /\ [][NextStore]_vars

\* ---------------------------------------------------------------- router actions
\* The page is loaded with or without static content in the target
InitRouter ==
  /\ \E m \in {factory("vis", [visible |-> TRUE], NoAttrs)} : Start(m)
  /\ InitRegistry
  /\ tree = TreeInit
  /\ lastWrite = NoWrite
  /\ trk = TrkInit
  /\ storeReg = StoreInit
  /\ \E body \in {"", "static"} : rt = RouterInit(body)

\* go(path): history.pushState({}, "", path), then the popstate listener
\* renders window.location.pathname + window.location.search
Go ==
  /\ rt.gos < MaxGo
  /\ \E url \in Urls :
       rt' = render([rt EXCEPT !.history = Append(SubSeq(@, 1, rt.at), url),
                               !.at = @ + 1, !.gos = @ + 1], url)
  /\ UNCHANGED <<instVars, regVars, tree, lastWrite, trk, storeReg>>

\* The browser's back button: the popstate listener renders the earlier entry
Back ==
  /\ rt.at > 1
  /\ rt.nextId <= 2 * MaxGo
  /\ rt' = render([rt EXCEPT !.at = @ - 1], rt.history[rt.at - 1])
  /\ UNCHANGED <<instVars, regVars, tree, lastWrite, trk, storeReg>>

NextRouter == Go \/ Back

SpecRouter == InitRouter /\ [][NextRouter]_vars

\* ---------------------------------------------------------------- tracking stack
\* A component over { a, b, get full() { ... } }. `trk.sets` are the Set
\* objects created so far, `trk.tracking` the index of the ambient one (0 for
\* null), `trk.stack` the tracked evaluations in progress, innermost last:
\* calls of track(fn) and runs of the getter of `full`.
Enter(t, kind) ==
  [t EXCEPT !.sets = Append(@, {}),
            !.tracking = Len(t.sets) + 1,
            !.stack = Append(@, [kind |-> kind, prev |-> t.tracking,
                                 own |-> Len(t.sets) + 1, reads |-> {}])]

\* get trap: if (tracking ...) tracking.add(rootKey)
trackRead(t, k) ==
  IF t.tracking = 0 THEN t ELSE [t EXCEPT !.sets[t.tracking] = @ \cup {k}]

\* The key is read by the innermost evaluation in progress
Noted(t, k) ==
  IF t.stack = <<>> THEN t ELSE [t EXCEPT !.stack[Len(t.stack)].reads = @ \cup {k}]

\* track(fn): const prev = tracking; tracking = deps
TrackCall ==
  /\ Len(trk.sets) < MaxFrames
  /\ trk' = [Enter(trk, "track") EXCEPT !.ended = NoEnd]
  /\ UNCHANGED <<instVars, regVars, tree, lastWrite, storeReg, rt>>

\* stateProxy.a, stateProxy.b read by the evaluation in progress (or by the host)
ProxyGet ==
  /\ \E k \in {"a", "b"} : trk' = [Noted(trackRead(trk, k), k) EXCEPT !.ended = NoEnd]
  /\ UNCHANGED <<instVars, regVars, tree, lastWrite, storeReg, rt>>

\* stateProxy.full: the key is tracked, then the getter saves tracking and
\* installs a new Set
ComputedGet ==
  /\ Len(trk.sets) < MaxFrames
  /\ trk' = [Enter(Noted(trackRead(trk, "full"), "full"), "getter") EXCEPT !.ended = NoEnd]
  /\ UNCHANGED <<instVars, regVars, tree, lastWrite, storeReg, rt>>

\* The innermost evaluation returns: track's finally, or the getter's
\* computed.deps = tracking; tracking = prevTracking
EvalReturn ==
  /\ trk.stack # <<>>
  /\ \E top \in {trk.stack[Len(trk.stack)]} :
       trk' = [trk EXCEPT !.tracking = top.prev,
                          !.stack = SubSeq(@, 1, Len(@) - 1),
                          !.deps = IF top.kind = "getter" THEN trk.sets[top.own] ELSE @,
                          !.ended = [prev |-> top.prev]]
  /\ UNCHANGED <<instVars, regVars, tree, lastWrite, storeReg, rt>>

\* computed.getter.call(stateProxy) throws: the statements after it are
\* skipped in the n innermost getters, down to the getter, the try of
\* evaluate() or bind(), or the host code that catches the exception
GetterThrows ==
  /\ \E n \in 1..Len(trk.stack) :
       /\ \A i \in (Len(trk.stack) - n + 1)..Len(trk.stack) : trk.stack[i].kind = "getter"
       /\ trk' = [trk EXCEPT !.stack = SubSeq(@, 1, Len(@) - n),
                             !.ended = [prev |-> trk.stack[Len(trk.stack) - n + 1].prev]]
  /\ UNCHANGED <<instVars, regVars, tree, lastWrite, storeReg, rt>>

NextTrack == TrackCall \/ ProxyGet \/ ComputedGet \/ EvalReturn \/ GetterThrows

SpecTrack == InitTree /\ [][NextTrack]_vars

\* The registry alone: component() calls at module load, and factory calls
NextRegistry == Component \/ FactoryCall

SpecRegistry == InitTree /\ [][NextRegistry]_vars

NextTree == TreeMutate \/ TreeReplace \/ AwaitNextTick \/ TreeEnd \/ RunTask

SpecTree == InitTree /\ [][NextTree]_vars

\* Microtasks run whenever the stack is empty, and the host's synchronous
\* code comes to an end
SpecTreeFair == SpecTree /\ WF_vars(RunTask) /\ WF_vars(TreeEnd)

\* ---------------------------------------------------------------- properties
\* Root keys the expression of a binding reads when evaluated in state st:
\* `a ? b : c` reads a and the branch taken, `quad` reads quad, the list
\* expression `items` reads items, `{item}` reads only its loop variable
ExprReads(kind, st) ==
  CASE kind = "tern" -> {"a"} \cup (IF st.a THEN {"b"} ELSE {"c"})
    [] kind = "quad" -> {"quad"}
    [] kind = "input" -> {"quad"}
    [] kind = "for" -> {"items"}
    [] OTHER -> {}

\* Text shown by the rendered clones, in document order
RenderedTexts == [i \in 1..Len(rendered) |-> rendered[i].text]

\* The last action ran a flush that took pending keys
FlushTookKeys == lastFlush.keys # {}

\* C1 (coalescing): after the flush of a turn whose writes all went to one
\* root key, every binding recorded under that key has been invoked exactly
\* once, and the rendered text is the value last written.
C1_Coalescing ==
  (Cardinality(lastFlush.keys) = 1 /\ lastFlush.writes >= 1 /\ lastFlush.affected > 0)
    => /\ lastFlush.minRuns = 1
       /\ lastFlush.maxRuns = 1
       /\ (tpl = "counter" /\ phase # "unmounted")
            => nodeText.p = (IF state.a THEN state.b ELSE state.c)

\* C2 (list fidelity): after every completed flush of a live instance the
\* `for` directive shows one clone per element of items, the i-th clone
\* showing items[i], whatever array mutations the turn made.
C2_ListFidelity ==
  (tpl = "list" /\ phase # "unmounted" /\ FlushTookKeys)
    => RenderedTexts = state.items

\* C3 (dependency re-evaluation): once every binding has run after the last
\* write, the dependency set recorded for a binding, and the keys it is
\* indexed under in depMap, are exactly the root keys its expression read in
\* that most recent execution.
C3_ExactDependencies ==
  (pendingKeys = <<>> /\ stale = {})
    => \A id \in DOMAIN bindingRegistry :
          /\ bindingRegistry[id].deps = ExprReads(bindingRegistry[id].kind, state)
          /\ \A k \in DOMAIN depMap :
                id \in Range(depMap[k]) <=> k \in ExprReads(bindingRegistry[id].kind, state)

\* C4 (unmount cleanup): after unmount() has returned, every cleanup callback
\* ever registered has run exactly once, however often unmount() was called,
\* no DOM listener is left and the root is detached.
C4_UnmountCleanup ==
  phase = "unmounted"
    => /\ ~attached
       /\ listeners = {}
       /\ \A c \in DOMAIN cleanupRuns : cleanupRuns[c] = 1

\* unmount() was called twice on a counter instance, whose cleanups are three
\* binding de-registrations and two listener removals
C4_Witness ==
  /\ tpl = "counter"
  /\ unmountCalls = 2
  /\ Cardinality(DOMAIN cleanupRuns) = 5
  /\ \A c \in DOMAIN cleanupRuns : cleanupRuns[c] = 1

\* C5 (no update after unmount): no binding update function is invoked after
\* unmount(), neither by a flush scheduled before it nor by later writes.
C5_NoUpdateAfterUnmount == ~ranAfterUnmount

\* Keys were pending when unmount() was called, a flush took keys afterwards,
\* and no binding ran
C5_Witness == pendingAtUnmount /\ flushedAfterUnmount /\ ~ranAfterUnmount

\* C6 (single scheduled flush): at most one flush microtask of the instance
\* is outstanding at any moment, for any interleaving of writes, synchronous
\* flushes of mount() and of event handlers, and microtask runs.
C6_SingleOutstandingFlush == microtasks <= 1

\* C7 (no lost update): once the microtask queue has drained no key is left
\* pending and every live binding has run after the last write to each of
\* its dependencies, so the rendered text is current.
C7_NoLostUpdate ==
  microtasks = 0
    => /\ pendingKeys = <<>>
       /\ stale = {}
       /\ (tpl = "counter" /\ phase # "unmounted")
            => nodeText.p = (IF state.a THEN state.b ELSE state.c)

\* The last microtask just flushed a turn of two writes and ran the
\* bindings recorded under the written keys
C7_Witness ==
  /\ microtasks = 0
  /\ lastFlush.writes = 2
  /\ lastFlush.affected > 0
  /\ lastFlush.minRuns >= 1
  /\ stale = {}

\* C8 (once per flush): in a flush that took two or more distinct keys, each
\* binding recorded under one or more of them is invoked once, not once per
\* key.
C8_OncePerFlush ==
  (Cardinality(lastFlush.keys) >= 2 /\ lastFlush.affected > 0)
    => lastFlush.minRuns = 1 /\ lastFlush.maxRuns = 1

\* C9 (computed cascade): the flush that takes a write to b, which dbl reads
\* and quad reads through dbl, re-enqueues dbl and then quad and re-runs
\* their dependents in further passes before it returns, so the text and the
\* control bound to quad show the new value and no key is left pending.
C9_ComputedCascade ==
  "b" \in lastFlush.keys
    => /\ lastFlush.passes >= 3
       /\ pendingKeys = <<>>
       /\ phase # "unmounted"
            => nodeText.span = Quad(state) /\ nodeText.input = Quad(state)

\* One flush took a write of 1 to b alone and the bound control shows 4
C9_Witness ==
  /\ lastFlush.keys = {"b"}
  /\ phase = "mounted"
  /\ state.b = 1
  /\ nodeText.span = 4
  /\ nodeText.input = 4

\* C10 (duplicate registration): a second component() call with the same tag
\* string always throws, so no tag string is ever registered twice.
C10_DuplicateTagThrows == \A t \in Tags : regCalls[t] <= 1

\* C11 (malformed for): a `for` attribute that does not match
\* `item[, index] in expr` makes the walk of the template throw, so the
\* factory call of such a component does not return normally.
C11_MalformedForThrows == (tpl = "badfor" /\ ~forMatch(attrs.forExpr)) => hostError

\* C12 (error isolation): when the expression of one binding throws, it is
\* rendered as undefined (empty text), the other bindings of the same flush
\* and of every later flush still run and show the current state, and
\* nothing reaches the host.
C12_ErrorIsolation ==
  (tpl = "guard" /\ phase # "unmounted" /\ FlushTookKeys)
    => /\ ~hostError
       /\ nodeText.p = (IF state.u = "null" THEN "" ELSE state.u)
       /\ nodeText.span = state.n
       /\ stale = {}

\* A flush ran the binding of `{u.name}` with u null, and then the binding
\* of `{n}`, which shows the value written in the same turn
C12_Witness ==
  /\ tpl = "guard"
  /\ FlushTookKeys
  /\ lastFlush.affected = 2
  /\ lastFlush.minRuns = 1
  /\ state.u = "null"
  /\ state.n = 1
  /\ nodeText.p = ""
  /\ nodeText.span = 1

\* C13 (handler errors are contained): whatever the `on:` statement of a
\* list item is - valid, throwing when run, or not parsable - no exception
\* reaches the host, neither from a dispatch nor from the walk or a list
\* re-render that sets the handler up.
C13_HandlerErrorsContained == tpl = "evlist" => ~hostError

\* C14 (directive precedence): on <li for="item in items" if="item != 'B'">
\* the list directive comes first and the condition is evaluated per item,
\* so once no update is pending the rendered clones are the items that
\* satisfy the condition, in order.
C14_ForBeforeIf ==
  (tpl = "forif" /\ phase # "unmounted" /\ pendingKeys = <<>>)
    => RenderedTexts = SelectSeq(state.items, LAMBDA x : x # "B")

\* C15 (conditional rendering): once the flush has completed, an `if`
\* directive has exactly one clone in the document when its expression is
\* truthy and none when it is falsy, and the clone in the document is never a
\* node that was removed before.
C15_IfRendersOneFreshClone ==
  (tpl = "cond" /\ phase # "unmounted" /\ pendingKeys = <<>>)
    => /\ state.on => (dom.ifNode # 0 /\ dom.inDom = {dom.ifNode})
       /\ ~state.on => (dom.ifNode = 0 /\ dom.inDom = {})
       /\ dom.inDom \cap dom.removed = {}

\* A flush re-inserts the clone after an earlier removal
C15_Witness ==
  /\ tpl = "cond"
  /\ FlushTookKeys
  /\ pendingKeys = <<>>
  /\ state.on
  /\ dom.removed # {}
  /\ dom.inDom = {dom.ifNode}

BoundText == Text(ExprValue(attrs.bindKey, state))

C20_MountedAfterAttachAndFlush ==
  tpl = "guard"
    => /\ life.mountedCalls = life.mountCalls
       /\ ~life.sawDetached
       /\ ~life.sawPending

\* The hook has run after a mount() whose flush took the keys written
\* before it, and again on a second mount()
C20_Witness ==
  /\ tpl = "guard"
  /\ life.afterFlush
  /\ life.mountCalls = 2
  /\ life.mountedCalls = 2

\* C18 (child prop propagation): whenever a component's v is object o with
\* content c, eventually its child's state key holds o and the child's
\* rendered output shows c, unless the component's value has changed again
\* by then.
C18_PropPropagation ==
  \A i \in 1..Depth : \A o \in Objs : \A c \in Vals :
    (tree.val[i - 1] = o /\ tree.heap[o] = c)
      ~> (\/ tree.val[i - 1] # o
          \/ tree.heap[o] # c
          \/ (tree.val[i] = o /\ tree.shown[i] = c))

\* The child shows the content of an object the parent was given by a later
\* assignment
C18_Witness ==
  /\ tree.writes > 0
  /\ tree.val[0] # 1
  /\ tree.val[1] = tree.val[0]
  /\ tree.shown[1] = tree.heap[tree.val[0]]
  /\ tree.shown[1] # 0
  /\ tree.queue = <<>>

\* C19 (one tick reaches every depth): when the host resumes from a single
\* `await nextTick()` issued right after its write(s) to the parent, the
\* rendered output of every instance of the chain shows the parent's value.
C19_VisibleAfterOneTick ==
  tree.observing => \A i \in Instances : tree.shown[i] = tree.heap[tree.val[0]]

\* C21 (unmounted hook): whenever the `unmounted` hook has run during the
\* unmount() of a mounted component, the root was still attached to the host
\* tree at that moment.
C21_UnmountedBeforeRemoval ==
  life.unmountedCalls > 0 => ~life.unmountedSawDetached
\* C22 (writes enqueue the root key): while the keys of the last write made
\* through the proxy have not been taken by a flush, the first segment of the
\* path the write was made at is pending in the scheduler.
C22_WriteEnqueuesRootKey ==
  (lastWrite # NoWrite /\ lastFlush = NoFlush) =>
     lastWrite.access[1] \in Range(pendingKeys)
\* C23 (re-entrant tracking): when a tracked evaluation (track(fn) or a
\* computed getter) has just finished, by returning or by throwing, the
\* ambient tracking set is the one that was active before it started; and the
\* keys an evaluation in progress has read itself are in its own set.
C23_TrackingRestored ==
  /\ trk.ended # NoEnd => trk.tracking = trk.ended.prev
  /\ \A i \in 1..Len(trk.stack) : trk.stack[i].reads \subseteq trk.sets[trk.stack[i].own]
\* C24 (no shared state): a child that mutates the array it received as a
\* prop leaves the content of the parent's state and the pending set of the
\* parent's scheduler as they were.
C24_ChildMutationIsLocal ==
  [][ChildMutate => /\ tree'.heap[tree.val[0]] = tree.heap[tree.val[0]]
                    /\ tree'.pending[0] = tree.pending[0]]_vars
\* C25 (one style element per tag): a tag has exactly one <style> element in
\* the document head if a component was registered under it with a style, and
\* none otherwise, however often the tag was registered and however many
\* instances its factory made.
C25_OneStyleElementPerTag ==
  \A t \in Tags : styleElements[t] = IF t \in styled THEN 1 ELSE 0

\* A styled tag registered twice whose factory made two instances
C25_Witness ==
  \E t \in styled : /\ regCalls[t] = 2
                     /\ factoryCalls[toLowerCase(t)] = MaxFactoryCalls
                     /\ styleElements[t] = 1
\* C26 (registerStore is idempotent): every registerStore(s) call returns s
\* and leaves s in `stores` with one subscriber map; a call for a store that
\* is registered already changes neither `stores` nor `subscribers`, so the
\* subscribers recorded for it are kept.
C26_RegisterStoreIdempotent ==
  [][\A s \in StoreObjs : RegisterStore(s) =>
        /\ storeReg'.result = s
        /\ s \in storeReg'.stores
        /\ DOMAIN storeReg'.subscribers = storeReg'.stores
        /\ s \in storeReg.stores =>
             /\ storeReg'.stores = storeReg.stores
             /\ storeReg'.subscribers = storeReg.subscribers]_vars

\* A store registered twice that has a subscriber
C26_Witness ==
  \E s \in storeReg.stores :
     /\ storeReg.calls[s] >= 2
     /\ storeReg.result = s
     /\ \E key \in DOMAIN storeReg.subscribers[s] : storeReg.subscribers[s][key] # {}
C28_IncrementalEqualsFull ==
  (tpl = "list" /\ phase # "unmounted" /\ "items" \in lastFlush.keys)
    => RenderedTexts =
         [i \in 1..Len(fullRender(Machine).rendered) |-> fullRender(Machine).rendered[i].text]
C30_NewDependencyInvokes ==
  (tpl = "grow" /\ phase # "unmounted" /\ ~state.a /\ lastFlush.keys = {"c"})
    => nodeText.p = state.c
\* C31 (once per turn across the cascade): in the flush of a turn that wrote b,
\* which the computed dbl reads, no binding recorded under b and under the
\* computed keys is invoked more than once, cascade passes included.
C31_OncePerTurnWithCascade ==
  (tpl = "counter" /\ "b" \in lastFlush.keys /\ lastFlush.affected > 0)
    => lastFlush.maxRuns <= 1
\* C32 (scratch state cleared): in every state between handlers in which no
\* key is pending, pendingOldValues and pendingArrayOps are empty.
C32_ScratchCleared ==
  pendingKeys = <<>> => (pendingOldValues = {} /\ pendingArrayOps = EmptyMap)
\* C33 (flush terminates): a flush makes at most one pass for the keys of the
\* turn and one cascade pass per computed property of the component, whose
\* getters here read b and dbl (an acyclic chain), and no update function
\* writes the state.
C33_FlushTerminates ==
  lastFlush.passes <= 1 + Len(ComputedKeys(tpl))

\* A turn of two writes that included b was flushed in three passes: the keys
\* of the turn, then dbl, then quad
C33_Witness ==
  /\ tpl = "counter"
  /\ lastFlush.writes = 2
  /\ Cardinality(lastFlush.keys) = 2
  /\ "b" \in lastFlush.keys
  /\ lastFlush.passes = 3
  /\ pendingKeys = <<>>
\* C34 (scheduler consistency): between handlers, updateScheduled is true
\* only while a key is pending, and while a key is pending a flush microtask
\* is outstanding.
C34_SchedulerConsistent ==
  /\ pendingKeys # <<>> => microtasks > 0
  /\ updateScheduled => pendingKeys # <<>>
\* C35 (bindings do not outlive their nodes): the registered bindings are
\* the `for` (or `if`) binding of the template and those of the clones now
\* rendered, two per `for` clone and one for the node under `if`.
C35_BindingsBounded ==
  /\ tpl = "list" =>
       Cardinality(DOMAIN bindingRegistry) <= 1 + 2 * Len(rendered)
  /\ tpl = "cond" =>
       Cardinality(DOMAIN bindingRegistry) <= 1 + (IF dom.ifNode # 0 THEN 1 ELSE 0)
\* C36 (parent unmount tears down the children): once unmount() of the
\* parent has run, unmount() of every child instance created during its walk
\* has run too (its cleanups and its `unmounted` hook).
C36_ChildrenTornDown ==
  tree.unmounted[0] => \A i \in 1..Depth : tree.unmounted[i]
\* C37 (handlers flush synchronously): when the dispatch of a click on the
\* button or on a list clone returns, no key is pending and no live binding
\* waits for a key the statement wrote.
C37_HandlerFlushesSync ==
  [][(Click \/ ClickItem) => (pendingKeys' = <<>> /\ stale' = {})]_vars
\* C38 (dispatch changes the DOM only through state writes): a click whose
\* statement writes no state leaves the class of the button as it was.
C38_QuietClickKeepsClass ==
  [][ClickQuiet => buttonClass' = buttonClass]_vars
\* C39 (reverse index): no depMap entry is an empty list, no id is listed
\* twice under a key, every id listed under key d is a registered binding
\* with d among its recorded dependencies, and every registered binding is
\* listed under each of its dependencies.
C39_ReverseIndex ==
  /\ \A d \in DOMAIN depMap : depMap[d] # <<>>
  /\ \A d \in DOMAIN depMap :
       \A i, j \in 1..Len(depMap[d]) : depMap[d][i] = depMap[d][j] => i = j
  /\ \A d \in DOMAIN depMap :
       \A id \in Range(depMap[d]) :
          id \in DOMAIN bindingRegistry /\ d \in bindingRegistry[id].deps
  /\ \A id \in DOMAIN bindingRegistry :
       \A d \in bindingRegistry[id].deps :
          d \in DOMAIN depMap /\ id \in Range(depMap[d])

\* unmount() ran the cleanups of five or more bindings, some of them made by
\* a flush, and emptied both maps
C39_Witness ==
  /\ phase = "unmounted"
  /\ bindingIdCounter >= 5
  /\ Len(rendered) >= 1
  /\ bindingRegistry = EmptyMap
  /\ depMap = EmptyMap
====
